---- MODULE Spec2Model ----
(***************************************************************************)
(* The transformer pipeline of openapi-transformer-cli.                    *)
(*                                                                         *)
(* The repository holds four historical variants of the entry point:       *)
(*   "esmConfig"  src/index.js 1-352     promise API, --config handlers,   *)
(*                                       loads joined with Promise.all     *)
(*   "esmEarly"   src/index.js 354-630   promise API, no --config, loads   *)
(*                                       started before the document read  *)
(*   "cjsConfig"  src/index.js 632-893   callback API, --config handlers,  *)
(*                                       synchronous require()             *)
(*   "cjsSingle"  src/unnamed/part_001   callback API, one --config value, *)
(*                                       file transformers pushed last     *)
(* One run of one variant is one behaviour of the model.  JavaScript runs  *)
(* a handler to its next await without interruption, so every action is    *)
(* one such run-to-completion step; stream and import completions are the  *)
(* environment's actions.                                                  *)
(***************************************************************************)
EXTENDS Integers, Sequences, FiniteSets, TLC

(***************************************************************************)
(* Bounds                                                                  *)
(***************************************************************************)
\* longest command line (tokens after `node openapi-transformer`)
MaxArgs == 3

\* longest command line that is also run with the empty specifier and with
\* every configuration text on stdin
MaxRichArgs == 2
MaxFairArgs == 1

(***************************************************************************)
(* Inputs                                                                  *)
(***************************************************************************)
Variants == {"esmConfig", "esmEarly", "cjsConfig", "cjsSingle"}

\* Transformer modules a command line can name: the two of src/test-lib,
\* a specifier that does not resolve, and a module whose transform rejects.
Specifiers == {"sync", "async", "nomod", "failing"}

ConfigPaths == {"-", "cfg.json"}
DocPaths == {"-", "doc.json"}

\* Texts a stream can deliver.
Texts == {"obj", "arr", "cfg", "yaml", "bad"}

\* Further configuration documents: a key other than `transformers`, and
\* `transformers` arrays of no item or of one item of each shape.
ConfigTexts ==
  {"extra", "cfgEmpty", "cfgTuple1", "cfgTuple3", "cfgTupleStr",
   "cfgEmptyTuple", "cfgBadTuple", "cfgNumber", "cfgObject", "cfgNull",
   "cfgEmptyName", "cfgEmptyNameTuple"}

\* the texts stdin can deliver to a run of the command line a
StdinTexts(a) ==
  IF Len(a) <= MaxRichArgs THEN Texts \cup ConfigTexts ELSE Texts

Tok(o, v) == [o |-> o, v |-> v]

\* Options whose handlers fire in command-line order.
OptionTokens ==
  {Tok("t", s) : s \in Specifiers} \cup {Tok("c", p) : p \in ConfigPaths}

\* A positional file name, an option the command does not know, the help
\* option or the version option, given last: commander fires the handlers
\* of all known options whatever the position of the first three.
TailTokens ==
  {Tok("file", p) : p \in DocPaths}
    \cup {Tok("bad", ""), Tok("help", ""), Tok("V", "")}

RECURSIVE SeqsUpTo(_, _)
SeqsUpTo(S, n) ==
  IF n = 0 THEN {<<>>}
  ELSE LET shorter == SeqsUpTo(S, n - 1)
       IN  shorter \cup {Append(s, x) : s \in shorter, x \in S}

\* Every command line of options and at most one tail token, those with
\* two file names, those with the version option before or after an unknown
\* option, and the short ones that name the empty specifier.
CommandLines ==
  SeqsUpTo(OptionTokens, MaxArgs)
    \cup {Append(s, x) : s \in SeqsUpTo(OptionTokens, MaxArgs - 1),
                         x \in TailTokens}
    \cup {s \o <<Tok("file", p), Tok("file", q)>> :
            s \in SeqsUpTo(OptionTokens, MaxArgs - 2),
            p \in DocPaths, q \in DocPaths}
    \cup {s \o t : s \in SeqsUpTo(OptionTokens, MaxArgs - 2),
                   t \in {<<Tok("V", ""), Tok("bad", "")>>,
                          <<Tok("bad", ""), Tok("V", "")>>}}
    \cup SeqsUpTo(OptionTokens \cup {Tok("t", "")}, MaxRichArgs)

(***************************************************************************)
(* Values                                                                  *)
(***************************************************************************)
\* An error: its class, its message as thrown, and the texts appended to the
\* message (err.message += ...) on its way up.
NoErr == [kind |-> "none", msg |-> "", suffix |-> <<>>]
Err(k, m) == [kind |-> k, msg |-> m, suffix |-> <<>>]

\* err.message += text
AppendMessage(e, text) == [e EXCEPT !.suffix = Append(@, text)]

\* An item of a `transformers` array: a string or a [name, ...args] tuple.
Entry(shape, name, entryArgs) ==
  [shape |-> shape, name |-> name, args |-> entryArgs]

\* A parsed JSON value, as far as the program looks at it: its type, whether
\* it has a `transformers` key and that key's items, its other keys, and the
\* `x-transformers` list the transformers of src/test-lib append to.
Value(type, hasT, ts, keys) ==
  [type |-> type, hasT |-> hasT, transformers |-> ts, keys |-> keys,
   xt |-> <<>>]

Undefined == Value("undefined", FALSE, <<>>, {})

ConfigJson ==
  Value("object", TRUE,
        <<Entry("string", "sync", <<>>), Entry("tuple", "async", <<"{opt}">>)>>,
        {})

\* the one item of the `transformers` array of a configuration text
ConfigItem(text) ==
  CASE text = "cfgTuple1" -> Entry("tuple", "sync", <<>>)
    [] text = "cfgTuple3" -> Entry("tuple", "sync", <<"{opt}", "two">>)
    [] text = "cfgTupleStr" -> Entry("tuple", "sync", <<"str">>)
    [] text = "cfgEmptyTuple" -> Entry("emptyTuple", "", <<>>)
    [] text = "cfgBadTuple" -> Entry("badTuple", "", <<>>)
    [] text = "cfgNumber" -> Entry("number", "", <<>>)
    [] text = "cfgObject" -> Entry("object", "", <<>>)
    [] text = "cfgNull" -> Entry("null", "", <<>>)
    [] text = "cfgEmptyName" -> Entry("string", "", <<>>)
    [] OTHER -> Entry("tuple", "", <<"{opt}">>)

\* JSON.parse
JSONparse(text) ==
  CASE text = "obj" -> [ok |-> TRUE, val |-> Value("object", FALSE, <<>>, {})]
    [] text = "arr" -> [ok |-> TRUE, val |-> Value("array", FALSE, <<>>, {})]
    [] text = "cfg" -> [ok |-> TRUE, val |-> ConfigJson]
    [] text = "extra" ->
         [ok |-> TRUE, val |-> Value("object", TRUE, <<>>, {"other"})]
    [] text = "cfgEmpty" ->
         [ok |-> TRUE, val |-> Value("object", TRUE, <<>>, {})]
    [] text \in ConfigTexts ->
         [ok |-> TRUE,
          val |-> Value("object", TRUE, <<ConfigItem(text)>>, {})]
    [] OTHER -> [ok |-> FALSE, val |-> Undefined]

\* What a file holds.
FileText(path) == IF path = "cfg.json" THEN "cfg" ELSE "obj"

\* stream.path || '-'
Filename(stream) == stream

(***************************************************************************)
(* Reading                                                                 *)
(***************************************************************************)
\* What readString's promise settles with: the text the stream delivered
\* before 'end', or the stream's 'error'.
Delivered(text) == [ok |-> TRUE, text |-> text]
StreamError == [ok |-> FALSE, text |-> ""]

Fulfilled(v) == [st |-> "fulfilled", val |-> v, err |-> NoErr]
Rejected(e) == [st |-> "rejected", val |-> Undefined, err |-> e]

readJson(stream, got) ==
  IF ~got.ok
    THEN Rejected(AppendMessage(Err("StreamError", ""), <<"in", Filename(stream)>>))
  ELSE IF ~JSONparse(got.text).ok
    THEN Rejected(AppendMessage(Err("SyntaxError", ""), <<"in", Filename(stream)>>))
  ELSE Fulfilled(JSONparse(got.text).val)

\* loadYaml(jsonOrYaml, { filename, onWarning, json: true }): the YAML text
\* of this model is a mapping that js-yaml loads with one warning
loadYaml(text) ==
  IF text = "yaml"
    THEN [ok |-> TRUE, val |-> Value("object", FALSE, <<>>, {"yaml"}),
          warned |-> TRUE]
    ELSE [ok |-> FALSE, val |-> Undefined, warned |-> FALSE]

\* A text that is not JSON is given to js-yaml.
readJsonOrYaml(stream, got) ==
  IF ~got.ok
    THEN Rejected(AppendMessage(Err("StreamError", ""), <<"in", Filename(stream)>>))
  ELSE IF JSONparse(got.text).ok
    THEN Fulfilled(JSONparse(got.text).val)
  ELSE IF loadYaml(got.text).ok
    THEN Fulfilled(loadYaml(got.text).val)
  ELSE Rejected(AppendMessage(Err("YAMLException", ""), <<"in", Filename(stream)>>))

\* js-yaml called onWarning while it loaded the text
YamlWarns(got) ==
  got.ok /\ ~JSONparse(got.text).ok /\ loadYaml(got.text).warned

\* typeof a constructor argument is 'object' (and it is no Array or null)
IsObjectArg(a) == a = "{opt}"

\* The check of one item of config.transformers.
EntryError(v, e) ==
  IF e.shape = "string" THEN NoErr
  ELSE IF e.shape \notin {"tuple", "emptyTuple", "badTuple"}
    THEN Err("TypeError", "items must be strings or Arrays")
  ELSE IF e.shape = "emptyTuple"
          \/ (v = "cjsSingle" /\ Len(e.args) > 1)
    THEN Err("Error", "tuples must have elements")
  ELSE IF e.shape = "badTuple"
    THEN Err("TypeError", "tuple first item must be a string")
  ELSE IF v = "cjsSingle" /\ (e.args = <<>> \/ ~IsObjectArg(e.args[1]))
    THEN Err("TypeError", "tuple second item must be an object")
  ELSE NoErr

RECURSIVE FirstEntryError(_, _, _)
FirstEntryError(v, ts, i) ==
  IF i > Len(ts) THEN NoErr
  ELSE IF EntryError(v, ts[i]) # NoErr THEN EntryError(v, ts[i])
  ELSE FirstEntryError(v, ts, i + 1)

\* The configuration object readConfigFile returns.
Config(ts, configFilePath) ==
  [transformers |-> ts, configFilePath |-> configFilePath]

NoConfig == Config(<<>>, "")

\* stream.path: undefined ("") for stdin
StreamPath(stream) == IF stream = "-" THEN "" ELSE stream

\* (mutation: keys other than `transformers` are ignored)
AnyKeyAccepted(config) == FALSE

\* for (const key of Object.keys(config)) { if (key !== 'transformers') ...
HasUnrecognizedKey(config) == config.keys # {}

readConfigFile(v, stream, got) ==
  LET json == readJson(stream, got)
      config == json.val
  IN  IF json.st = "rejected" THEN [st |-> "rejected", config |-> NoConfig,
                                    err |-> json.err]
      ELSE IF config.type # "object"
        THEN [st |-> "rejected", config |-> NoConfig,
              err |-> Err("TypeError", "config file must contain a JSON object")]
      ELSE IF HasUnrecognizedKey(config)
        THEN [st |-> "rejected", config |-> NoConfig,
              err |-> Err("Error", "unrecognized key")]
      \* for (const transformer of undefined)
      ELSE IF ~config.hasT
        THEN [st |-> "rejected", config |-> NoConfig,
              err |-> Err("TypeError", "transformers is not iterable")]
      ELSE IF FirstEntryError(v, config.transformers, 1) # NoErr
        THEN [st |-> "rejected", config |-> NoConfig,
              err |-> FirstEntryError(v, config.transformers, 1)]
      ELSE [st |-> "fulfilled",
            config |-> Config(config.transformers,
                              IF v = "cjsSingle" THEN ""
                              ELSE StreamPath(stream)),
            err |-> NoErr]

(***************************************************************************)
(* Resolving, loading and the transformers of src/test-lib                 *)
(***************************************************************************)
\* The directory a specifier is looked up from.
SearchDir(v, parent) ==
  CASE v = "esmConfig" -> IF parent # "" THEN "configdir" ELSE "clidir"
    [] v = "esmEarly" -> "cwd"
    [] v = "cjsConfig" -> IF parent # "" THEN "configdir" ELSE "cwd"
    [] OTHER -> "clidir"

\* require.resolve(id, { paths })
resolveTransformer(v, name, parent) ==
  IF name = ""
    THEN [ok |-> FALSE, location |-> <<>>,
          err |-> Err("ERR_INVALID_ARG_VALUE", name)]
  ELSE IF name = "nomod"
    THEN [ok |-> FALSE, location |-> <<>>, err |-> Err("MODULE_NOT_FOUND", name)]
    ELSE [ok |-> TRUE, location |-> <<SearchDir(v, parent), name>>,
          err |-> NoErr]

\* new Transformer(...options): the instance keeps its arguments
Transformer(name, options) == [name |-> name, args |-> options]

IsAsync(name) == name \in {"async", "failing"}

\* transformOpenApi of src/test-lib/sync-transformer.js and
\* async-transformer.js; "failing" is a transformer that always rejects.
transformOpenApi(t, openApi) ==
  IF t.name = "failing"
    THEN [ok |-> FALSE, val |-> Undefined, err |-> Err("Error", "rejected")]
  ELSE IF openApi.type # "object"
    THEN [ok |-> FALSE, val |-> Undefined,
          err |-> Err("Error", "Invalid openApi object")]
  ELSE [ok |-> TRUE,
        val |-> [openApi EXCEPT !.xt = Append(@, Transformer(t.name, t.args))],
        err |-> NoErr]

\* JSON.stringify followed by jsonReplaceExponentials and the newline
Stringify(v) == <<"json", v.type, v.hasT, v.transformers, v.keys, v.xt, "\n">>


(***************************************************************************)
(* Command-line parsing (commander) and the option handlers                *)
(***************************************************************************)
\* An element of configsOrPromises: the object built from --transformer
\* flags, or the promise readConfigFile returned for one --config flag.
\* `handled`: a reaction to the promise's rejection has been attached (an
\* object that is not a promise cannot reject).
CliConfig(ts) ==
  [kind |-> "cli", path |-> "", st |-> "value", config |-> Config(ts, ""),
   err |-> NoErr, handled |-> TRUE]

FilePromise(path) ==
  [kind |-> "file", path |-> path, st |-> "pending", config |-> NoConfig,
   err |-> NoErr, handled |-> FALSE]

\* Promise.all(configsOrPromises) attaches its reactions to every element
Observe(cop) == [i \in 1..Len(cop) |-> [cop[i] EXCEPT !.handled = TRUE]]

\* .on('option:config', ...)
optionConfig(cop, configPath) == Append(cop, FilePromise(configPath))

\* lastConfig && lastConfig.transformers: a promise has no `transformers`
HasTransformers(c) == c.kind = "cli"

\* .on('option:transformer', ...)
optionTransformer(cop, transformer) ==
  IF cop # <<>> /\ HasTransformers(cop[Len(cop)])
    THEN [cop EXCEPT ![Len(cop)].config.transformers =
                       Append(@, Entry("string", transformer, <<>>))]
    ELSE Append(cop, CliConfig(<<Entry("string", transformer, <<>>)>>))

ParseStart ==
  [cop |-> <<>>, transformer |-> <<>>, config |-> "", version |-> FALSE,
   stopped |-> FALSE, unknown |-> FALSE, help |-> FALSE, files |-> <<>>]

HasConfigOption(v) == v # "esmEarly"
HasOptionHandlers(v) == v \in {"esmConfig", "cjsConfig"}
\* the version option ends parsing with an exception (commander's
\* .version(), or the option:version handler of the early-loading variant)
VersionStopsParsing(v) == v # "esmConfig"
IsCallbackApi(v) == v \in {"cjsConfig", "cjsSingle"}

\* The arguments main checks before it does anything: a call is "ok" or
\* named after the first check it fails.
ArgumentChecks(v) ==
  {"args", "options", "stdin", "stdout", "stderr"}
    \cup (IF IsCallbackApi(v) THEN {"exit"} ELSE {})

\* (mutation: only args is checked)
OnlyArgsChecked(c) == c = "args"

\* if (!Array.isArray(args) || args.length < 2) ... throw new TypeError
FailsValidation(c) == c # "ok"

\* What parsing one token does.
ParseToken(v, ps, tok) ==
  IF ps.stopped THEN ps
  ELSE CASE tok.o = "t" ->
              IF HasOptionHandlers(v)
                THEN [ps EXCEPT !.cop = optionTransformer(@, tok.v)]
                ELSE [ps EXCEPT !.transformer =
                                  Append(@, Entry("string", tok.v, <<>>))]
         [] tok.o = "c" ->
              IF ~HasConfigOption(v) THEN [ps EXCEPT !.unknown = TRUE]
              ELSE IF HasOptionHandlers(v)
                THEN [ps EXCEPT !.cop = optionConfig(@, tok.v)]
              ELSE [ps EXCEPT !.config = tok.v]
         [] tok.o = "V" ->
              [ps EXCEPT !.version = TRUE, !.stopped = VersionStopsParsing(v)]
         [] tok.o = "file" -> [ps EXCEPT !.files = Append(@, tok.v)]
         [] tok.o = "help" -> [ps EXCEPT !.help = TRUE]
         [] OTHER -> [ps EXCEPT !.unknown = TRUE]

RECURSIVE ParseFrom(_, _, _, _)
ParseFrom(v, ps, a, i) ==
  IF i > Len(a) THEN ps ELSE ParseFrom(v, ParseToken(v, ps, a[i]), a, i + 1)

\* command.parse(args)
parse(v, a) == ParseFrom(v, ParseStart, a, 1)

\* (mutation: excess positional arguments are allowed)
ExcessArgumentsAllowed(ps) == ~ps.stopped /\ (ps.help \/ ps.unknown)

\* command.parse throws a CommanderError: the help option, an unknown
\* option or too many positional arguments, unless the version exception
\* came first.
ParseThrows(ps) ==
  ~ps.stopped /\ (ps.help \/ ps.unknown \/ Len(ps.files) > 1)

\* errParse.exitCode: commander exits 0 after the help text, 1 after an
\* error
ParseExitCode(ps) == IF ps.help THEN 0 ELSE 1

\* The run prints the version.
VersionRequested(ps) == ps.version /\ ~ParseThrows(ps)


(***************************************************************************)
(* Loading                                                                 *)
(***************************************************************************)
\* The promise of one transformer instance: the specifier and constructor
\* arguments it was started with, and the identity of the instance once
\* constructed (0: none yet).  A reaction to its rejection is attached in
\* the step that creates it: transformerP.catch(() => {}), Promise.all(...),
\* or the promise chain around the synchronous require.
Load(name, options, parent, location, st, e) ==
  [name |-> name, options |-> options, parent |-> parent,
   location |-> location, st |-> st, err |-> e, instance |-> 0,
   handled |-> TRUE]

\* the earlier resolutions of the run that found the same specifier from
\* the same parent
SameRequest(earlier, name, parent) ==
  {j \in 1..Len(earlier) : /\ earlier[j].name = name
                           /\ earlier[j].parent = parent
                           /\ earlier[j].location # <<>>}

\* (mutation: a specifier is looked up from the directory of the module
\* that was found last)
LocatedNearLast(earlier, name, parent, found) ==
  LET hits == {j \in 1..Len(earlier) : earlier[j].location # <<>>}
  IN  IF hits = {} THEN found
      ELSE <<earlier[CHOOSE j \in hits : \A h \in hits : h <= j].location[2],
             name>>

\* The resolver keeps what it found (Module._pathCache, keyed by the request
\* and the search paths): a request made before gets the cached location,
\* any other the location just looked up.
Located(earlier, name, parent, found) ==
  LET hits == SameRequest(earlier, name, parent)
  IN  IF hits = {} THEN found
      ELSE earlier[CHOOSE j \in hits : \A h \in hits : j <= h].location

\* The part of loading that runs when the load is started: the specifier is
\* resolved; import() of the resolved location is then pending.  `earlier`
\* are the loads the run has started before this one.
BeginLoad(v, name, options, parent, earlier) ==
  LET r == resolveTransformer(v, name, parent)
  IN  IF r.ok
        THEN Load(name, options, parent,
                  Located(earlier, name, parent, r.location),
                  "importing", NoErr)
        ELSE Load(name, options, parent, r.location, "rejected", r.err)

RECURSIVE MapTransformers(_, _, _, _)
MapTransformers(v, config, i, done) ==
  IF i > Len(config.transformers) THEN done
  ELSE MapTransformers(
         v, config, i + 1,
         Append(done,
                BeginLoad(v, config.transformers[i].name,
                          config.transformers[i].args,
                          config.configFilePath, done)))

\* (mutation: only the first transformer of a configuration is loaded
\* before the fold)
OnlyFirstStarted(v, config, earlier) ==
  IF config.transformers = <<>> THEN earlier
  ELSE Append(earlier,
              BeginLoad(v, config.transformers[1].name,
                        config.transformers[1].args, config.configFilePath,
                        earlier))

\* transformers.map(async (transformer) => ...) of one configuration: the
\* loads started before, followed by those of this configuration
createTransformersForConfig(v, config, earlier) ==
  MapTransformers(v, config, 1, earlier)

\* configs.flatMap(createTransformersForConfig)
RECURSIVE FlatMap(_, _, _, _)
FlatMap(v, configs, i, done) ==
  IF i > Len(configs) THEN done
  ELSE FlatMap(v, configs, i + 1,
               createTransformersForConfig(v, configs[i].config, done))

\* loadTransformer(t, cwdUrl): the instance is constructed without arguments
loadTransformer(v, entry, earlier) ==
  BeginLoad(v, entry.name, <<>>, "", earlier)

\* createTransformer(config) of the single-config variant:
\* new Transformer(options), options undefined for a bare string
createTransformer(v, entry, earlier) ==
  BeginLoad(v, entry.name,
            IF entry.args = <<>> THEN <<"undefined">> ELSE <<entry.args[1]>>,
            "", earlier)

\* (argOpts.transformer || []).map(...) / transformers.map(createTransformer)
RECURSIVE MapEntries(_, _, _, _)
MapEntries(v, entries, i, done) ==
  IF i > Len(entries) THEN done
  ELSE MapEntries(v, entries, i + 1,
                  Append(done,
                         IF v = "cjsSingle"
                           THEN createTransformer(v, entries[i], done)
                           ELSE loadTransformer(v, entries[i], done)))

\* the identities of the instances constructed so far
Objects(ls) == {ls[j].instance : j \in 1..Len(ls)} \ {0}

\* (mutation: one instance per specifier, shared by its references)
SharedInstance(ls, i, l) ==
  IF \E j \in 1..Len(ls) : ls[j].instance # 0 /\ ls[j].name = l.name
    THEN LET j == CHOOSE j \in 1..Len(ls) :
                    ls[j].instance # 0 /\ ls[j].name = l.name
         IN  ls[j].instance
    ELSE Cardinality(Objects(ls)) + 1

\* new Transformer(...): an object distinct from every object that exists,
\* named after the position of the reference it is made for when that
\* name is free
NewInstance(ls, i, l) ==
  IF i \notin Objects(ls) THEN i
  ELSE CHOOSE n \in 1..(Len(ls) + 1) : n \notin Objects(ls)

\* import() settled and the default export was constructed
Imported(l, obj) == [l EXCEPT !.st = "ready", !.instance = obj]

\* require() is synchronous: the loads in order, up to and including the
\* first that throws
RECURSIVE UntilThrow(_, _, _)
UntilThrow(ls, i, done) ==
  IF i > Len(ls) THEN done
  ELSE IF ls[i].st = "rejected" THEN Append(done, ls[i])
  ELSE UntilThrow(ls, i + 1,
                  Append(done, Imported(ls[i], NewInstance(done, i, ls[i]))))

\* index of the first rejected promise of a list, 0 if none
RECURSIVE FirstRejected(_, _)
FirstRejected(ps, i) ==
  IF i > Len(ps) THEN 0
  ELSE IF ps[i].st = "rejected" THEN i
  ELSE FirstRejected(ps, i + 1)

AllSettledOk(ps) == \A i \in 1..Len(ps) : ps[i].st \in {"fulfilled", "value", "ready"}

(***************************************************************************)
(* State                                                                   *)
(***************************************************************************)
VARIABLES
  variant,            \* which entry point runs
  call,               \* "ok", or the argument of main that is invalid
  args,               \* the command line
  thrown,             \* the error main threw or rejected with, if any
  pc,                 \* where the entry point is suspended
  configsOrPromises,  \* as in the source
  transformers,       \* argOpts.transformer / the `transformers` list
  docP,               \* the promise of readJsonOrYaml(openApiStream)
  stdinGot,           \* what options.stdin delivered to its listeners
  loads,              \* the promises of the transformer instances
  overtaken,          \* some import() settled before that of an earlier load
  idx,                \* position of the next transformer to apply
  inflight,           \* positions whose transformOpenApi has not settled
  openApi,            \* the current document
  calls,              \* transformOpenApi invocations: position, input
  returns,            \* transformOpenApi results: position, value
  stdout,             \* what was written to options.stdout
  stderr,             \* what was written to options.stderr
  writeSt,            \* the promise of the document's stdout write
  tick,               \* exit code handed to process.nextTick(exit, code)
  exitCode            \* exit code reported (-1: none yet)

vars ==
  <<variant, call, args, thrown, pc, configsOrPromises, transformers, docP, stdinGot, loads,
    overtaken, idx, inflight, openApi, calls, returns, stdout, stderr,
    writeSt, tick, exitCode>>

NoPromise == [st |-> "none", stream |-> "", val |-> Undefined, err |-> NoErr]

\* nothing has been read, started or written
InitialState ==
  /\ thrown = NoErr
  /\ pc = "start"
  /\ configsOrPromises = <<>>
  /\ transformers = <<>>
  /\ docP = NoPromise
  /\ stdinGot = Delivered("")
  /\ loads = <<>>
  /\ overtaken = FALSE
  /\ idx = 1
  /\ inflight = {}
  /\ openApi = Undefined
  /\ calls = <<>>
  /\ returns = <<>>
  /\ stdout = <<>>
  /\ stderr = <<>>
  /\ writeSt = "none"
  /\ tick = -1
  /\ exitCode = -1

Init ==
  /\ variant \in Variants
  /\ call \in {"ok"} \cup ArgumentChecks(variant)
  /\ args \in CommandLines
  /\ InitialState

\* the runs of the short command lines
ShortInit ==
  /\ variant \in Variants
  /\ call \in {"ok"} \cup ArgumentChecks(variant)
  /\ args \in {a \in CommandLines : Len(a) <= MaxFairArgs}
  /\ InitialState

ErrorLine(e) == [what |-> "error", err |-> e]
Warning == [what |-> "warning", err |-> NoErr]
\* onWarning(errYaml): options.stderr.write(`${errYaml}\n`)
onWarning == [what |-> "yamlWarning", err |-> NoErr]
CommanderError == [what |-> "commander", err |-> NoErr]
VersionLine == [what |-> "version", json |-> <<>>]
UsageLine == [what |-> "usage", json |-> <<>>]
DocumentLine(v) == [what |-> "document", json |-> Stringify(v)]

\* The entry point reports an exit code: the promise API returns it, the
\* callback API hands it to process.nextTick(exit, code).
Report(code) ==
  IF IsCallbackApi(variant)
    THEN pc' = "exitTick" /\ tick' = code /\ exitCode' = exitCode
    ELSE pc' = "done" /\ exitCode' = code /\ tick' = tick

\* (mutation: the catch block reports success)
CatchReturnsZero(e) ==
  /\ stderr' = Append(stderr, ErrorLine(e))
  /\ Report(0)

\* catch (err) { options.stderr.write(`${err}\n`); return 1; }
Catch(e) ==
  /\ stderr' = Append(stderr, ErrorLine(e))
  /\ Report(1)


(***************************************************************************)
(* The entry point up to its first await                                   *)
(***************************************************************************)
\* An argument of main is invalid: the callback API throws the TypeError,
\* the promise API returns a promise rejected with it.
ArgumentsRejected ==
  /\ pc = "start"
  /\ FailsValidation(call)
  /\ thrown' = Err("TypeError", call)
  /\ pc' = IF IsCallbackApi(variant) THEN "threw" ELSE "rejected"
  /\ UNCHANGED <<variant, call, args, configsOrPromises, transformers, docP,
                 stdinGot, loads, overtaken, idx, inflight, openApi, calls,
                 returns, stdout, stderr, writeSt, tick, exitCode>>

\* command.parse(args) threw a CommanderError: commander has written the
\* help text to stdout or its message to stderr, and the error's exit code
\* is reported.  The option handlers that fired have started their
\* configuration reads.
ParseFails ==
  LET ps == parse(variant, args)
  IN  /\ pc = "start"
      /\ ~FailsValidation(call)
      /\ ParseThrows(ps)
      /\ configsOrPromises' = ps.cop
      /\ IF ps.help
           THEN stdout' = Append(stdout, UsageLine) /\ UNCHANGED stderr
           ELSE stderr' = Append(stderr, CommanderError) /\ UNCHANGED stdout
      /\ Report(ParseExitCode(ps))
      /\ UNCHANGED <<variant, call, args, thrown, transformers, docP, stdinGot, loads,
                     overtaken, idx, inflight, openApi, calls, returns,
                     writeSt>>

\* -V / --version: commander's .version() writes the version and exits 0;
\* the promise variants read package.json first.
Version ==
  LET ps == parse(variant, args)
  IN  /\ pc = "start"
      /\ ~FailsValidation(call)
      /\ VersionRequested(ps)
      /\ configsOrPromises' = ps.cop
      /\ IF IsCallbackApi(variant)
           THEN stdout' = Append(stdout, VersionLine) /\ Report(0)
           ELSE pc' = "version" /\ UNCHANGED <<stdout, tick, exitCode>>
      /\ UNCHANGED <<variant, call, args, thrown, transformers, docP, stdinGot, loads, overtaken, idx,
                     inflight, openApi, calls, returns, stderr, writeSt>>

\* readJson(packageJsonStream) settled; a failure rejects the promise the
\* entry point returned (the await is outside the try block).
VersionRead ==
  /\ pc = "version"
  /\ \/ /\ stdout' = Append(stdout, VersionLine)
        /\ pc' = "done"
        /\ exitCode' = 0
        /\ UNCHANGED thrown
     \/ /\ pc' = "rejected"
        /\ thrown' = AppendMessage(Err("StreamError", ""),
                                   <<"in", "package.json">>)
        /\ UNCHANGED <<stdout, exitCode>>
  /\ UNCHANGED <<variant, call, args, configsOrPromises, transformers, docP, stdinGot, loads,
                 overtaken, idx, inflight, openApi, calls, returns, stderr,
                 writeSt, tick>>

\* readConfigFile(configStream) of the single-config variant: readString
\* throws at once when the stream has no readableEncoding, which is the
\* case of stdin unless it is also the document's stream.
SingleConfigPromise(config, openApiStream, stdinHasEncoding) ==
  IF config = "-" /\ openApiStream # "-" /\ ~stdinHasEncoding
    THEN [FilePromise(config) EXCEPT
            !.st = "rejected",
            !.err = AppendMessage(
                      Err("Error", "stream must have a readableEncoding"),
                      <<"in", Filename(config)>>)]
    ELSE FilePromise(config)

\* (mutation: the warning is written whenever stdin is a terminal)
WarnsWheneverTTY(files, isTTY) == isTTY

\* if (files.length === 0) { if (options.stdin.isTTY) { ...write(...) } }
WarnsNoFilename(files, isTTY) == files = <<>> /\ isTTY

\* Parsing succeeded: the TTY warning, opening the document stream, and
\* everything each variant starts before it first suspends.
Begin ==
  LET ps == parse(variant, args)
      files == IF ps.files = <<>> THEN <<"-">> ELSE ps.files
  IN  /\ pc = "start"
      /\ ~FailsValidation(call)
      /\ ~ParseThrows(ps)
      /\ ~VersionRequested(ps)
      /\ \E isTTY \in BOOLEAN, stdinHasEncoding \in BOOLEAN :
           /\ stderr' = IF WarnsNoFilename(ps.files, isTTY)
                          THEN Append(stderr, Warning) ELSE stderr
           /\ configsOrPromises' =
                IF variant = "cjsSingle"
                  THEN IF ps.config = "" THEN <<>>
                       ELSE Observe(<<SingleConfigPromise(ps.config, files[1],
                                                          stdinHasEncoding)>>)
                ELSE IF variant = "cjsConfig" THEN Observe(ps.cop)
                ELSE ps.cop
      /\ docP' = [NoPromise EXCEPT !.st = "pending", !.stream = files[1]]
      /\ transformers' = ps.transformer
      /\ loads' = IF variant = "esmEarly"
                    THEN MapEntries(variant, ps.transformer, 1, <<>>)
                    ELSE <<>>
      /\ pc' = IF IsCallbackApi(variant) THEN "awaitAll" ELSE "awaitDoc"
      /\ UNCHANGED <<variant, call, args, thrown, stdinGot, overtaken, idx, inflight,
                     openApi, calls, returns, stdout, writeSt, tick, exitCode>>


(***************************************************************************)
(* The loop of applyTransformers / of the entry point                      *)
(***************************************************************************)
\* (mutation: the loop does not await the transform it started)
TransformNotAwaited(pending) == TRUE

\* `openApi = await transformer.transformOpenApi(openApi)`: the loop goes on
\* only when the transform it started has settled
TransformAwaited(pending) == pending = {}

\* (mutation: the error is replaced by one that wraps it)
Wrapped(v, e, name) == Err("LoadError", name)

\* errTransformer.message += ` applying transformer ${...}` is in the
\* early-loading variant only
Attributed(v, e, name) ==
  IF v = "esmEarly" THEN AppendMessage(e, <<"applying transformer", name>>)
  ELSE e

\* (mutation: the step's result is dropped, every step gets the input)
KeepOpenApi(current, returned) == current

\* openApi = await ...: the value the step returned becomes the document
NextOpenApi(current, returned) == returned

\* (mutation: the loop takes whichever instance is ready first)
FirstReady(i, ls) ==
  IF \E j \in i..Len(ls) : ls[j].st # "importing"
    THEN CHOOSE j \in i..Len(ls) :
           /\ ls[j].st # "importing"
           /\ \A h \in i..(j - 1) : ls[h].st = "importing"
    ELSE i

\* for (const transformer of transformers): the loop takes the instances
\* in list order, whatever order they became ready in
NextToApply(i, ls) == i

\* (mutation: the loop ends before the last element)
StopsOneShort(i, ls) == i >= Len(ls)

\* the loop has passed the last element of the list
LoopDone(i, ls) == i > Len(ls)

\* (mutation: the loop stays on the element it has just applied)
SameElement(i) == i

\* for (... of ...): the loop moves on to the next element
NextElement(i) == i + 1

\* (mutation: a failed step is swallowed and the loop goes on)
Swallowed(r) == FALSE

\* A transformOpenApi that threw, or whose promise rejected, makes the
\* await throw.
Throws(r) == ~r.ok

\* (mutation: the await throws as soon as any load not yet applied has
\* failed)
AnyRejected(at, ls) == \E j \in at..Len(ls) : ls[j].st = "rejected"

\* `await transformerP` throws when that promise is rejected
AwaitRejects(at, ls) == ls[at].st = "rejected"

\* The instance a settled load holds.
Instance(l) == Transformer(l.name, l.options)

(***************************************************************************)
(* Awaits                                                                  *)
(***************************************************************************)
\* Promise.all(configsOrPromises) has an outcome
ConfigsSettled(cop) == FirstRejected(cop, 1) # 0 \/ AllSettledOk(cop)

\* Promise.all(loads) has an outcome
LoadsSettled(ls) == FirstRejected(ls, 1) # 0 \/ AllSettledOk(ls)

\* The promise the entry point is suspended on has settled: its
\* continuation is a microtask and runs before any further I/O event.
MainReady ==
  \/ pc = "awaitDoc" /\ docP.st # "pending"
  \/ pc = "awaitConfigs" /\ ConfigsSettled(configsOrPromises)
  \/ pc = "awaitAll"
       /\ \/ docP.st = "rejected"
          \/ FirstRejected(configsOrPromises, 1) # 0
          \/ docP.st = "fulfilled" /\ AllSettledOk(configsOrPromises)
  \/ pc = "awaitLoads" /\ LoadsSettled(loads)
  \/ pc = "fold" /\ TransformAwaited(inflight)
       /\ (LoopDone(idx, loads)
             \/ loads[NextToApply(idx, loads)].st # "importing")

(***************************************************************************)
(* The environment: streams, import(), transformers, stdout                *)
(***************************************************************************)
ReadsStdin(p) == p.st = "pending" /\ p.stream = "-"
ConfigReadsStdin(c) == c.kind = "file" /\ c.st = "pending" /\ c.path = "-"

\* the readers whose listeners are attached to options.stdin
StdinReaders ==
  (IF ReadsStdin(docP) THEN {0} ELSE {})
    \cup {i \in 1..Len(configsOrPromises) :
            ConfigReadsStdin(configsOrPromises[i])}

SettleConfig(c, got) ==
  LET r == readConfigFile(variant, c.path, got)
  IN  [c EXCEPT !.st = r.st, !.config = r.config, !.err = r.err]

SettleDoc(p, got) ==
  LET r == readJsonOrYaml(p.stream, got)
  IN  [p EXCEPT !.st = r.st, !.val = r.val, !.err = r.err]

\* stdin emits its data and 'end' (or 'error'): every listener attached to
\* it is called with the same events
StdinEnd ==
  /\ ~MainReady
  /\ StdinReaders # {}
  /\ \E got \in {Delivered(t) : t \in StdinTexts(args)} \cup {StreamError} :
       /\ stdinGot' = got
       /\ docP' = IF ReadsStdin(docP) THEN SettleDoc(docP, got) ELSE docP
       /\ stderr' = IF ReadsStdin(docP) /\ YamlWarns(got)
                      THEN Append(stderr, onWarning) ELSE stderr
       /\ configsOrPromises' =
            [i \in 1..Len(configsOrPromises) |->
               IF ConfigReadsStdin(configsOrPromises[i])
                 THEN SettleConfig(configsOrPromises[i], got)
                 ELSE configsOrPromises[i]]
  /\ UNCHANGED <<variant, call, args, thrown, pc, transformers, loads, overtaken, idx,
                 inflight, openApi, calls, returns, stdout, writeSt, tick,
                 exitCode>>

\* the document's file stream ends or fails
DocFileEnd ==
  /\ ~MainReady
  /\ docP.st = "pending" /\ docP.stream # "-"
  /\ \E got \in {Delivered(FileText(docP.stream)), StreamError} :
       /\ docP' = SettleDoc(docP, got)
       /\ stderr' = IF YamlWarns(got) THEN Append(stderr, onWarning)
                      ELSE stderr
  /\ UNCHANGED <<variant, call, args, thrown, pc, configsOrPromises, transformers,
                 stdinGot, loads, overtaken, idx, inflight, openApi, calls,
                 returns, stdout, writeSt, tick, exitCode>>

\* a configuration file's stream ends or fails
ConfigFileEnd(i) ==
  /\ ~MainReady
  /\ configsOrPromises[i].kind = "file"
  /\ configsOrPromises[i].st = "pending"
  /\ configsOrPromises[i].path # "-"
  /\ \E got \in {Delivered(FileText(configsOrPromises[i].path)), StreamError} :
       configsOrPromises' =
         [configsOrPromises EXCEPT ![i] = SettleConfig(@, got)]
  /\ UNCHANGED <<variant, call, args, thrown, pc, transformers, docP, stdinGot, loads, overtaken, idx,
                 inflight, openApi, calls, returns, stdout, stderr, writeSt,
                 tick, exitCode>>

\* import() of one resolved module settles and its default export is
\* constructed
LoadSettle(i) ==
  /\ ~MainReady
  /\ loads[i].st = "importing"
  /\ loads' = [loads EXCEPT ![i] = Imported(@, NewInstance(loads, i, @))]
  /\ overtaken' = (overtaken \/ \E j \in 1..(i - 1) : loads[j].st = "importing")
  /\ UNCHANGED <<variant, call, args, thrown, pc, configsOrPromises, transformers, docP, stdinGot,
                 idx, inflight, openApi, calls, returns, stdout, stderr,
                 writeSt, tick, exitCode>>

(***************************************************************************)
(* The entry point's continuations                                         *)
(***************************************************************************)
\* const openApi = await readJsonOrYaml(openApiStream, onWarning)
AwaitDoc ==
  /\ pc = "awaitDoc"
  /\ docP.st # "pending"
  /\ IF docP.st = "rejected"
       THEN Catch(docP.err) /\ UNCHANGED <<openApi, configsOrPromises>>
       ELSE /\ openApi' = docP.val
            /\ pc' = IF variant = "esmEarly" THEN "fold" ELSE "awaitConfigs"
            /\ configsOrPromises' = Observe(configsOrPromises)
            /\ UNCHANGED <<stderr, tick, exitCode>>
  /\ UNCHANGED <<variant, call, args, thrown, transformers, docP, stdinGot, loads,
                 overtaken, idx, inflight, calls, returns, stdout, writeSt>>

\* const configs = await Promise.all(configsOrPromises), then
\* applyTransformers starts every load: configs.flatMap(...)
AwaitConfigs ==
  /\ pc = "awaitConfigs"
  /\ ConfigsSettled(configsOrPromises)
  /\ IF FirstRejected(configsOrPromises, 1) # 0
       THEN /\ Catch(configsOrPromises[FirstRejected(configsOrPromises, 1)].err)
            /\ UNCHANGED loads
       ELSE /\ loads' = FlatMap(variant, configsOrPromises, 1, <<>>)
            /\ pc' = "awaitLoads"
            /\ UNCHANGED <<stderr, tick, exitCode>>
  /\ UNCHANGED <<variant, call, args, thrown, configsOrPromises, transformers, docP, stdinGot,
                 overtaken, idx, inflight, openApi, calls, returns, stdout,
                 writeSt>>

\* await Promise.all(...) in applyTransformers
AwaitLoads ==
  /\ pc = "awaitLoads"
  /\ LoadsSettled(loads)
  /\ IF FirstRejected(loads, 1) # 0
       THEN Catch(loads[FirstRejected(loads, 1)].err)
       ELSE pc' = "fold" /\ UNCHANGED <<stderr, tick, exitCode>>
  /\ UNCHANGED <<variant, call, args, thrown, configsOrPromises, transformers, docP, stdinGot, loads,
                 overtaken, idx, inflight, openApi, calls, returns, stdout,
                 writeSt>>


\* transformers.push(...fileOptions.transformers): the single-config variant
\* puts the file's transformers after those of the command line
pushFileOptions(cli, cop) ==
  IF cop = <<>> THEN cli ELSE cli \o cop[1].config.transformers

\* The promises the synchronous variants create before the fold: every
\* require() and constructor call runs when applyTransformers is entered.
createAll(v, cli, cop) ==
  IF v = "cjsSingle"
    THEN LET ts == pushFileOptions(cli, cop)
         IN  UntilThrow(MapEntries(v, ts, 1, <<>>), 1, <<>>)
    ELSE UntilThrow(FlatMap(v, cop, 1, <<>>), 1, <<>>)

\* Promise.all([readJsonOrYaml(...), ...configs]).then(applyTransformers)
AwaitAll ==
  /\ pc = "awaitAll"
  /\ IF docP.st = "rejected"
       THEN Catch(docP.err) /\ UNCHANGED <<openApi, transformers, loads>>
     ELSE IF FirstRejected(configsOrPromises, 1) # 0
       THEN /\ Catch(configsOrPromises[FirstRejected(configsOrPromises, 1)].err)
            /\ UNCHANGED <<openApi, transformers, loads>>
     ELSE /\ docP.st = "fulfilled"
          /\ AllSettledOk(configsOrPromises)
          /\ openApi' = docP.val
          /\ transformers' = IF variant = "cjsSingle"
                               THEN pushFileOptions(transformers,
                                                    configsOrPromises)
                               ELSE transformers
          /\ LET created == createAll(variant, transformers, configsOrPromises)
             IN  /\ loads' = created
                 /\ IF FirstRejected(created, 1) # 0
                      THEN Catch(created[FirstRejected(created, 1)].err)
                      ELSE pc' = "fold" /\ UNCHANGED <<stderr, tick, exitCode>>
  /\ UNCHANGED <<variant, call, args, thrown, configsOrPromises, docP, stdinGot, overtaken, idx,
                 inflight, calls, returns, stdout, writeSt>>

(***************************************************************************)
(* The fold                                                                *)
(***************************************************************************)
\* One pass of the loop body up to the await of transformOpenApi: await the
\* instance (early-loading variant), call transformOpenApi with the current
\* document.  A synchronous transformer has returned or thrown by then.
Invoke ==
  LET at == NextToApply(idx, loads)
  IN
  /\ pc = "fold"
  /\ ~LoopDone(idx, loads)
  /\ TransformAwaited(inflight)
  /\ loads[at].st # "importing"
  /\ IF AwaitRejects(at, loads)
       THEN /\ Catch(Attributed(variant, loads[at].err, loads[at].name))
            /\ UNCHANGED <<idx, inflight, openApi, calls, returns>>
       ELSE LET t == Instance(loads[at])
                r == transformOpenApi(t, openApi)
            IN  /\ calls' = Append(calls, [pos |-> at, t |-> t,
                                           input |-> openApi,
                                           this |-> loads[at].instance])
                /\ IF IsAsync(t.name)
                     THEN /\ inflight' = inflight \cup {at}
                          /\ idx' = NextElement(idx)
                          /\ UNCHANGED <<pc, openApi, returns, stderr, tick,
                                         exitCode>>
                     ELSE IF Throws(r)
                       THEN /\ Catch(Attributed(variant, r.err, t.name))
                            /\ UNCHANGED <<idx, inflight, openApi, returns>>
                       ELSE /\ openApi' = NextOpenApi(openApi, r.val)
                            /\ returns' = Append(returns, [pos |-> at,
                                                           val |-> r.val])
                            /\ idx' = NextElement(idx)
                            /\ UNCHANGED <<pc, inflight, stderr, tick,
                                           exitCode>>
  /\ UNCHANGED <<variant, call, args, thrown, configsOrPromises, transformers, docP,
                 stdinGot, loads, overtaken, stdout, writeSt>>

\* the call of position k, as recorded
CallAt(k) == CHOOSE c \in {calls[j] : j \in 1..Len(calls)} : c.pos = k

\* The promise an asynchronous transformOpenApi returned settles and the
\* loop resumes with its value or its rejection.
TransformSettle(k) ==
  /\ pc = "fold"
  /\ k \in inflight
  /\ inflight' = inflight \ {k}
  /\ LET c == CallAt(k)
         r == transformOpenApi(c.t, c.input)
     IN  IF Throws(r)
           THEN /\ Catch(Attributed(variant, r.err, c.t.name))
                /\ UNCHANGED <<openApi, returns>>
           ELSE /\ openApi' = NextOpenApi(openApi, r.val)
                /\ returns' = Append(returns, [pos |-> k, val |-> r.val])
                /\ UNCHANGED <<pc, stderr, tick, exitCode>>
  /\ UNCHANGED <<variant, call, args, thrown, configsOrPromises, transformers, docP,
                 stdinGot, loads, overtaken, idx, calls, stdout, writeSt>>

\* After the loop: JSON.stringify and the start of the stdout write.
WriteOut ==
  /\ pc = "fold"
  /\ LoopDone(idx, loads)
  /\ inflight = {}
  /\ pc' = "writing"
  /\ writeSt' = "pending"
  /\ UNCHANGED <<variant, call, args, thrown, configsOrPromises, transformers, docP, stdinGot, loads,
                 overtaken, idx, inflight, openApi, calls, returns, stdout,
                 stderr, tick, exitCode>>

\* The write's callback reports success, or stdout emits 'error'.
WriteSettle ==
  /\ pc = "writing"
  /\ \/ /\ writeSt' = "done"
        /\ stdout' = Append(stdout, DocumentLine(openApi))
        /\ Report(0)
        /\ UNCHANGED stderr
     \/ /\ writeSt' = "failed"
        /\ Catch(Err("WriteError", ""))
        /\ UNCHANGED stdout
  /\ UNCHANGED <<variant, call, args, thrown, configsOrPromises, transformers, docP, stdinGot, loads,
                 overtaken, idx, inflight, openApi, calls, returns>>

\* process.nextTick(exit, exitCode) runs the callback
ExitTick ==
  /\ pc = "exitTick"
  /\ exitCode' = tick
  /\ pc' = "done"
  /\ UNCHANGED <<variant, call, args, thrown, configsOrPromises, transformers, docP, stdinGot, loads,
                 overtaken, idx, inflight, openApi, calls, returns, stdout,
                 stderr, writeSt, tick>>

Next ==
  \/ ArgumentsRejected
  \/ ParseFails
  \/ Version
  \/ VersionRead
  \/ Begin
  \/ StdinEnd
  \/ DocFileEnd
  \/ \E i \in 1..Len(configsOrPromises) : ConfigFileEnd(i)
  \/ \E i \in 1..Len(loads) : LoadSettle(i)
  \/ AwaitDoc
  \/ AwaitConfigs
  \/ AwaitLoads
  \/ AwaitAll
  \/ Invoke
  \/ \E k \in inflight : TransformSettle(k)
  \/ WriteOut
  \/ WriteSettle
  \/ ExitTick

Spec == Init /\ [][Next]_vars


(***************************************************************************)
(* Properties                                                              *)
(***************************************************************************)
\* the run ended with exit code 0 after the document was written
Succeeded == pc = "done" /\ exitCode = 0 /\ writeSt = "done"

\* the specifiers of the transformers whose transformOpenApi was invoked,
\* in invocation order
AppliedNames == [j \in 1..Len(calls) |-> calls[j].t.name]

Names(ts) == [j \in 1..Len(ts) |-> ts[j].name]

\* the transformers one flag of the command line declares
DeclaredBy(tok) ==
  IF tok.o = "t" THEN <<tok.v>>
  ELSE IF tok.o = "c"
    THEN LET text == IF tok.v = "-" THEN stdinGot.text ELSE FileText(tok.v)
         IN  IF JSONparse(text).ok THEN Names(JSONparse(text).val.transformers)
             ELSE <<>>
  ELSE <<>>

\* ... of the flags of a command line, in command-line order
RECURSIVE DeclaredOrder(_, _)
DeclaredOrder(a, i) ==
  IF i > Len(a) THEN <<>> ELSE DeclaredBy(a[i]) \o DeclaredOrder(a, i + 1)

ConfigBetweenTransformers(a) ==
  \E i, j, k \in 1..Len(a) :
    i < j /\ j < k /\ a[i].o = "t" /\ a[j].o = "c" /\ a[k].o = "t"

\* C1: when a --config flag stands between --transformer flags, the
\* transformers applied by a successful run are those of the command line
\* before the flag, then the file's in file order, then those after it.
C1_AssemblyOrder ==
  (Succeeded /\ ConfigBetweenTransformers(args))
    => AppliedNames = DeclaredOrder(args, 1)


\* the values transformOpenApi of position k returned
Returned(k) ==
  {returns[j].val : j \in {h \in 1..Len(returns) : returns[h].pos = k}}

\* C2: the transformers are invoked in list order, the first with the
\* parsed input document and each later one with exactly the value the one
\* before it returned or resolved; a successful run writes the value the
\* last one returned.
C2_FoldChaining ==
  /\ \A j \in 1..Len(calls) :
       /\ calls[j].pos = j
       /\ calls[j].t = Instance(loads[j])
       /\ IF j = 1 THEN calls[j].input = docP.val
          ELSE Returned(j - 1) = {calls[j].input}
  /\ (Succeeded /\ loads # <<>>)
       => /\ Len(calls) = Len(loads)
          /\ \E v \in Returned(Len(loads)) : stdout = <<DocumentLine(v)>>

\* a successful run of a synchronous and an asynchronous transformer
C2_Witness ==
  /\ Succeeded
  /\ Len(calls) >= 2
  /\ \E i, j \in 1..Len(calls) :
       ~IsAsync(calls[i].t.name) /\ IsAsync(calls[j].t.name)

\* C3: at most one transform operation is in flight, and a step is invoked
\* only when the result of the step before it is available.
C3_StrictSequencing ==
  /\ Cardinality(inflight) <= 1
  /\ \A j \in 2..Len(calls) : Returned(calls[j - 1].pos) # {}

\* a second asynchronous step is in flight after the first one settled
C3_Witness ==
  /\ Len(calls) >= 2
  /\ IsAsync(calls[1].t.name)
  /\ inflight = {calls[2].pos}

\* C4: whatever order the loads complete in, a transformer is applied only
\* after every transformer declared before it has been applied.
C4_DeclaredOrderWhateverLoadOrder ==
  \A j \in 1..Len(calls) :
    \A a \in 1..(calls[j].pos - 1) :
      \E i \in 1..(j - 1) : calls[i].pos = a

\* two loads of which the second settled first, both applied
C4_Witness ==
  /\ Len(loads) = 2
  /\ overtaken
  /\ Len(calls) = 2

\* the transform of position k was invoked and failed
TransformFailed(k) ==
  \E j \in 1..Len(calls) :
    /\ calls[j].pos = k
    /\ k \notin inflight
    /\ ~transformOpenApi(calls[j].t, calls[j].input).ok

LoadFailed(k) == loads[k].st = "rejected"

\* C5: when loading or transforming with the k-th transformer has failed, no
\* transformer at a later position is invoked.
C5_FailFast ==
  \A k \in 1..Len(loads) :
    (LoadFailed(k) \/ TransformFailed(k))
      => \A j \in 1..Len(calls) : calls[j].pos <= k

\* the run ended on the failure of a transformer that is neither the first
\* nor the last of the list
C5_Witness ==
  /\ pc = "done"
  /\ \E k \in 2..(Len(loads) - 1) : TransformFailed(k)


\* reading the document or a configuration, or resolving, importing,
\* constructing or applying a transformer has failed
SomethingFailed ==
  \/ docP.st = "rejected"
  \/ \E i \in 1..Len(configsOrPromises) : configsOrPromises[i].st = "rejected"
  \/ \E k \in 1..Len(loads) : LoadFailed(k) \/ TransformFailed(k)

\* an error line: the caught error, or commander's message
ErrorOnStderr ==
  \E i \in 1..Len(stderr) : stderr[i].what \in {"error", "commander"}

\* the command line makes the run print the version or the help text
PrintsVersionOrHelp ==
  LET ps == parse(variant, args)
  IN  VersionRequested(ps) \/ (ParseThrows(ps) /\ ps.help)

FirstFailure(k) ==
  /\ k \in 1..Len(loads)
  /\ docP.st = "fulfilled"
  /\ AllSettledOk(configsOrPromises)
  /\ LoadFailed(k) \/ TransformFailed(k)
  /\ \A j \in 1..(k - 1) : ~(LoadFailed(j) \/ TransformFailed(j))

\* the error line on stderr has `applying transformer <name>` appended
AttributedTo(name) ==
  \E i \in 1..Len(stderr) :
    /\ stderr[i].what = "error"
    /\ \E j \in 1..Len(stderr[i].err.suffix) :
         stderr[i].err.suffix[j] = <<"applying transformer", name>>

\* C7: when instantiating or transforming with a transformer has failed,
\* the error reported on stderr carries the specifier of that transformer,
\* appended to its message.
C7_FailureAttribution ==
  \A k \in 1..Len(loads) :
    (pc = "done" /\ FirstFailure(k)) => AttributedTo(loads[k].name)

\* the number of documents written to stdout
DocumentsOnStdout ==
  Cardinality({i \in 1..Len(stdout) : stdout[i].what = "document"})

\* success: the final document written once, exit code 0
SuccessOutcome ==
  /\ exitCode = 0
  /\ DocumentsOnStdout = 1
  /\ \E i \in 1..Len(stdout) : stdout[i] = DocumentLine(openApi)

\* failure: exit code 1, no document on stdout
FailureOutcome == exitCode = 1 /\ DocumentsOnStdout = 0

\* transformOpenApi of every transformer of the list was invoked once
EveryTransformerInvokedOnce ==
  /\ Len(calls) = Len(loads)
  /\ \A k \in 1..Len(loads) :
       Cardinality({j \in 1..Len(calls) : calls[j].pos = k}) = 1

EmptyPipeline(a) == \A i \in 1..Len(a) : a[i].o \notin {"t", "c"}

\* the document was read and the write to stdout completed
ReadAndWritten == pc = "done" /\ docP.st = "fulfilled" /\ writeSt = "done"

\* C9 as stated: without --transformer and --config, a run that read its
\* document and completed its write has written the parsed input document
\* unchanged, exits with code 0 and has written nothing to stderr.
C9_EmptyPipelineSilent ==
  (ReadAndWritten /\ EmptyPipeline(args))
    => /\ stdout = <<DocumentLine(docP.val)>>
       /\ exitCode = 0
       /\ stderr = <<>>

\* C9, amended: ... and has written nothing to stderr except the warnings
\* of the YAML parser and, when no file name was given, the warning that
\* stdin will be read.
C9_EmptyPipeline ==
  (ReadAndWritten /\ EmptyPipeline(args))
    => /\ stdout = <<DocumentLine(docP.val)>>
       /\ exitCode = 0
       /\ \A i \in 1..Len(stderr) :
            \/ stderr[i] = onWarning
            \/ stderr[i] = Warning /\ parse(variant, args).files = <<>>

\* an empty pipeline wrote its document after the warning about stdin
C9_Witness ==
  /\ ReadAndWritten
  /\ EmptyPipeline(args)
  /\ calls = <<>>
  /\ stderr = <<Warning>>

\* C10: options.stdin never has the listeners of two readers attached at
\* the same time.
C10_SharedStdin == Cardinality(StdinReaders) <= 1

\* the positions of the --config flags of a command line
ConfigFlags(a) == {i \in 1..Len(a) : a[i].o = "c"}

\* the number of --transformer flags of a command line
TransformerFlags(a) == Cardinality({i \in 1..Len(a) : a[i].o = "t"})

\* C11: however many times --config occurs, the transformers a successful
\* run applied are those of the command line and of at most one
\* configuration source.
C11_AtMostOneConfigFile ==
  Succeeded
    => \/ Len(calls) = TransformerFlags(args)
       \/ \E i \in ConfigFlags(args) :
            Len(calls) = TransformerFlags(args) + Len(DeclaredBy(args[i]))

\* the text the configuration read i received, "" while it has none
ConfigTextOf(i) ==
  IF configsOrPromises[i].kind # "file" \/ configsOrPromises[i].st = "pending"
    THEN ""
  ELSE IF configsOrPromises[i].path = "-"
    THEN (IF stdinGot.ok THEN stdinGot.text ELSE "")
  ELSE IF configsOrPromises[i].st = "rejected"
          /\ configsOrPromises[i].err.kind = "StreamError"
    THEN ""
  ELSE FileText(configsOrPromises[i].path)

\* C12: a configuration document that is a JSON object without a
\* `transformers` field is accepted by readConfigFile and contributes no
\* transformer.
C12_AbsentTransformers ==
  \A i \in 1..Len(configsOrPromises) :
    ConfigTextOf(i) = "obj"
      => /\ configsOrPromises[i].st = "fulfilled"
         /\ configsOrPromises[i].config.transformers = <<>>

\* some configuration read received a document that is not a JSON object
\* or that has a top-level key other than `transformers`
SchemaViolated ==
  \E i \in 1..Len(configsOrPromises) : ConfigTextOf(i) \in {"arr", "extra"}

WellShaped ==
  {"cfg", "cfgEmpty", "cfgTuple1", "cfgTuple3", "cfgTupleStr",
   "cfgEmptyName", "cfgEmptyNameTuple"}

\* configuration texts with an item of another shape: an empty array, an
\* array that starts with a number, a number, an object, null
IllShaped ==
  {"cfgEmptyTuple", "cfgBadTuple", "cfgNumber", "cfgObject", "cfgNull"}

\* C14: readConfigFile accepts every `transformers` item that is a string
\* or an array of a string followed by any number of arguments, and
\* rejects every other item with an error.
C14_EntryShape ==
  \A i \in 1..Len(configsOrPromises) :
    /\ ConfigTextOf(i) \in WellShaped
         => configsOrPromises[i].st = "fulfilled"
    /\ ConfigTextOf(i) \in IllShaped
         => /\ configsOrPromises[i].st = "rejected"
            /\ configsOrPromises[i].err.kind \in {"TypeError", "Error"}

\* C15: a reference whose specifier is the empty string, from --transformer
\* or from a configuration item, is rejected before any resolution is
\* attempted for it: no load is ever started for the empty specifier.
C15_EmptySpecifier == \A k \in 1..Len(loads) : loads[k].name # ""

\* the load at position k is that of a --transformer flag
IsCliLoad(k) ==
  CASE variant = "esmEarly" -> TRUE
    [] variant = "cjsSingle" -> k <= TransformerFlags(args)
    [] OTHER -> /\ loads[k].parent = ""
                /\ \A i \in ConfigFlags(args) : args[i].v # "-"

\* the specifier of load k was found
Resolved(k) == loads[k].location # <<>>

\* C16: every transformer declared with --transformer is resolved relative
\* to the current working directory, also when --config flags appear before
\* or after it.
C16_CliOrigin ==
  \A k \in 1..Len(loads) :
    (IsCliLoad(k) /\ Resolved(k)) => loads[k].location[1] = "cwd"

\* the configuration path ("" for the command line) each declared
\* transformer comes from, in command-line order
RECURSIVE DeclaredOrigins(_, _)
DeclaredOrigins(a, i) ==
  IF i > Len(a) THEN <<>>
  ELSE [j \in 1..Len(DeclaredBy(a[i])) |->
          IF a[i].o = "c" THEN a[i].v ELSE ""]
         \o DeclaredOrigins(a, i + 1)

\* where the transformer of load k was declared
OriginOf(k) ==
  IF variant = "cjsSingle"
    THEN (IF k <= TransformerFlags(args) THEN ""
          ELSE parse(variant, args).config)
    ELSE DeclaredOrigins(args, 1)[k]

\* C17: a transformer declared in a configuration file is resolved
\* relative to the directory of that file, and a transformer of the command
\* line never gets a configuration file as its origin.
C17_ConfigOrigin ==
  \A k \in 1..Len(loads) :
    /\ (OriginOf(k) \notin {"", "-"} /\ Resolved(k))
         => loads[k].location[1] = "configdir"
    /\ OriginOf(k) = "" => loads[k].parent = ""

\* the items of the configurations, flattened in order
RECURSIVE FlatEntries(_, _)
FlatEntries(cop, i) ==
  IF i > Len(cop) THEN <<>>
  ELSE cop[i].config.transformers \o FlatEntries(cop, i + 1)

\* the references of the assembled pipeline
Assembled ==
  IF HasOptionHandlers(variant) THEN FlatEntries(configsOrPromises, 1)
  ELSE transformers

\* C18: every transformer that is applied was constructed with exactly the
\* arguments of its reference, in order: those after the specifier of a
\* tuple, none for a bare string or a --transformer flag.
C18_ConstructorArguments ==
  \A j \in 1..Len(calls) :
    calls[j].t.args = Assembled[calls[j].pos].args

\* C19: when an argument of main is invalid, main fails with a TypeError,
\* thrown by the callback API and as a rejected promise by the promise API;
\* no stream is read or written and no exit code is reported.
C19_ArgumentValidation ==
  call # "ok"
    => /\ pc \in {"start", IF IsCallbackApi(variant) THEN "threw"
                            ELSE "rejected"}
       /\ pc # "start" => thrown.kind = "TypeError"
       /\ configsOrPromises = <<>> /\ docP.st = "none"
       /\ StdinReaders = {}
       /\ stdout = <<>> /\ stderr = <<>>
       /\ tick = -1 /\ exitCode = -1

\* the callback API threw because exit is not a function
C19_Witness == call = "exit" /\ pc = "threw" /\ args # <<>>

\* the command line has an unknown option or more than one positional
\* argument
ParseFailure ==
  LET ps == parse(variant, args)
  IN  /\ call = "ok"
      /\ ~ps.stopped /\ ~ps.help
      /\ ps.unknown \/ Len(ps.files) > 1

\* C20: when command-line parsing fails, the run ends with exit code 1,
\* writes nothing to stdout, and never reads the document or invokes a
\* transformer.
C20_ParseFailure ==
  ParseFailure
    => /\ pc \in {"start", "exitTick", "done"}
       /\ pc = "done" => exitCode = 1
       /\ stdout = <<>>
       /\ docP.st = "none"
       /\ loads = <<>> /\ calls = <<>>

\* a run given two file names ended, after a --config handler had started
\* its read
C20_Witness ==
  /\ ParseFailure
  /\ pc = "done"
  /\ Len(parse(variant, args).files) > 1
  /\ configsOrPromises # <<>>

\* -V or --version is on the command line
VersionGiven == call = "ok" /\ \E i \in 1..Len(args) : args[i].o = "V"

\* C21: when -V or --version is given, the run writes exactly the version
\* line to stdout, nothing to stderr, ends with exit code 0, and neither
\* starts to read the document nor loads or applies a transformer.
C21_Version ==
  VersionGiven
    => /\ docP.st = "none"
       /\ loads = <<>> /\ calls = <<>>
       /\ stderr = <<>>
       /\ pc = "done" => stdout = <<VersionLine>> /\ exitCode = 0

\* two references with the same specifier have been constructed
SameSpecifierTwice ==
  \E i, j \in 1..Len(loads) :
    /\ i < j /\ loads[i].name = loads[j].name
    /\ loads[i].st = "ready" /\ loads[j].st = "ready"

\* C22: every reference gets its own instance: no two references, with the
\* same specifier or not, hold the same instance, and transformOpenApi of
\* position k is called on the instance constructed for reference k.
C22_FreshInstances ==
  /\ \A i, j \in 1..Len(loads) :
       i # j /\ loads[i].st = "ready" /\ loads[j].st = "ready"
         => loads[i].instance # loads[j].instance
  /\ \A i \in 1..Len(loads) : loads[i].st = "ready" <=> loads[i].instance # 0
  /\ \A c \in 1..Len(calls) :
       calls[c].this = loads[calls[c].pos].instance /\ calls[c].this # 0

C22_Witness ==
  /\ SameSpecifierTwice
  /\ Len(calls) >= 2
  /\ calls[1].t.name = calls[2].t.name

\* the run has reported a failure
FailureReported == exitCode = 1 \/ tick = 1

\* C23: nothing is retried.  The list of loads is created once; a load
\* keeps its specifier and resolved location, and once it has settled
\* (constructed or failed) it never changes again; transformOpenApi is
\* never invoked twice for the same position; after a failure has been
\* reported no transform is invoked.
C23_NoRetry ==
  [][/\ loads # <<>> => Len(loads') = Len(loads)
     /\ \A i \in 1..Len(loads) :
          /\ i <= Len(loads')
          /\ loads'[i].name = loads[i].name
          /\ loads'[i].location = loads[i].location
          /\ loads[i].st # "importing" => loads'[i] = loads[i]
     /\ Len(calls') >= Len(calls)
     /\ SubSeq(calls', 1, Len(calls)) = calls
     /\ \A c \in (Len(calls) + 1)..Len(calls') :
          \A d \in 1..Len(calls) : calls[d].pos # calls'[c].pos
     /\ FailureReported => calls' = calls]_vars

\* a run failed on a load after it had invoked a transform
C23_Witness ==
  /\ pc = "done" /\ exitCode = 1
  /\ calls # <<>>
  /\ \E i \in 1..Len(loads) : loads[i].st = "rejected"

\* the specifier of reference k could not be resolved, and that is the
\* failure the run reports
ResolutionFailed(k) == FirstFailure(k) /\ LoadFailed(k)

\* the error the resolver threw for reference k
ResolverError(k) ==
  resolveTransformer(variant, loads[k].name, loads[k].parent).err

\* the error written by the catch block of the entry point
ReportedError ==
  IF stderr # <<>> /\ stderr[Len(stderr)].what = "error"
    THEN stderr[Len(stderr)].err ELSE NoErr

C25_ConfigurationImmutable ==
  [][pc # "start"
       => /\ transformers' = transformers
          /\ \A i \in 1..Len(configsOrPromises) :
               configsOrPromises[i].st \in {"fulfilled", "value"}
                 => configsOrPromises'[i].config
                      = configsOrPromises[i].config]_vars

EveryLoadStarted ==
  /\ Len(loads) = Len(Assembled)
  /\ \A k \in 1..Len(loads) : loads[k].name = Assembled[k].name

\* C27: when the first transformOpenApi is invoked the load of every
\* reference of the run has been started, and a step that starts or
\* settles a load invokes no transformOpenApi.
C27_LoadBeforeFold ==
  [][/\ (calls = <<>> /\ calls' # <<>>) => EveryLoadStarted
     /\ loads' # loads => calls' = calls]_vars

\* the first transformer has been invoked while a later one, whose load was
\* started, is still being imported
C27_Witness ==
  /\ Len(calls) = 1
  /\ EveryLoadStarted
  /\ \E k \in 2..Len(loads) : loads[k].st = "importing"

\* the transformers at the positions before k were invoked, in order, and
\* no other
InvokedBefore(k) ==
  /\ Len(calls) = k - 1
  /\ \A j \in 1..Len(calls) : calls[j].pos = j

\* a load failure in a variant that awaits all loads before the fold leaves
\* every transformer uninvoked
NoFoldAfterLoadFailure ==
  (variant # "esmEarly" /\ \E k \in 1..Len(loads) : LoadFailed(k))
    => calls = <<>>

\* C28 as stated: in the early-loading variant, when the reference at
\* position k fails to load, the transformers before k are still invoked,
\* in order, before the failure is reported; in the other variants a load
\* failure means that no transformer is invoked.
C28_EarlierTransformsInvoked ==
  /\ \A k \in 1..Len(loads) :
       (variant = "esmEarly" /\ pc = "done" /\ LoadFailed(k))
         => \A j \in 1..(k - 1) : \E c \in 1..Len(calls) : calls[c].pos = j
  /\ NoFoldAfterLoadFailure

\* C28, amended: in the early-loading variant, when the document was read
\* and the reference at position k fails to load while no transformer before
\* k fails, exactly the transformers before k are invoked, in order, each
\* returns, and then the failure of k is reported; in the other variants a
\* load failure means that no transformer is invoked.
C28_EarlierTransformsUntilFailure ==
  /\ \A k \in 1..Len(loads) :
       (variant = "esmEarly" /\ pc = "done" /\ ResolutionFailed(k))
         => /\ InvokedBefore(k)
            /\ Len(returns) = k - 1
            /\ exitCode = 1
            /\ ReportedError.msg = loads[k].name
  /\ NoFoldAfterLoadFailure

\* the early-loading variant applied the transformers before the one that
\* failed to load
C28_Witness ==
  /\ variant = "esmEarly" /\ pc = "done"
  /\ \E k \in 2..Len(loads) : ResolutionFailed(k) /\ InvokedBefore(k)

\* C29: when a run has ended, every configuration read and every transformer
\* load it started that failed has had its failure observed: no rejected
\* promise is left without a reaction.
C29_NoUnobservedFailure ==
  pc = "done"
    => /\ \A i \in 1..Len(configsOrPromises) :
            configsOrPromises[i].st = "rejected"
              => configsOrPromises[i].handled
       /\ \A k \in 1..Len(loads) :
            loads[k].st = "rejected" => loads[k].handled

(***************************************************************************)
(* Termination                                                             *)
(***************************************************************************)
\* The event loop runs every callback that is ready, and the claim assumes
\* that every stream ends or fails, every import and every transformOpenApi
\* settles and the stdout write completes or fails: no step that can be
\* taken is put off for ever.
FairSpec == ShortInit /\ [][Next]_vars /\ WF_vars(Next)

\* the run has reported an exit code
ExitCodeReported == pc = "done" /\ exitCode \in {0, 1}

\* C30: every run that passes argument validation eventually reports an
\* exit code, and reports it once; code 0 of a run that transforms a
\* document is reported only after the stdout write has completed; while a
\* transformOpenApi has not returned, no exit code is reported and nothing
\* is written to stdout.
C30_Termination ==
  /\ (call = "ok") ~> ExitCodeReported
  /\ [][exitCode # -1 => exitCode' = exitCode]_vars
  /\ []((exitCode = 0 /\ ~PrintsVersionOrHelp) => writeSt = "done")
  /\ [](inflight # {} => exitCode = -1 /\ tick = -1 /\ stdout = <<>>)


====
